---- MODULE Spec2Model ----
(***************************************************************************)
(* Model of ci/config_checker.py: a command-line tool that loads YAML      *)
(* configs and JSON schemas while parsing its arguments, validates the     *)
(* service config, loops over the mirror configs, logs the outcome and     *)
(* exits.  The model runs the tool twice (the second invocation keeps the  *)
(* service arguments and may change the mirror arguments) so that          *)
(* properties relating two runs can be stated over one behaviour.          *)
(***************************************************************************)
EXTENDS Integers, Sequences, FiniteSets

(* ---------------------------- bounds ----------------------------------- *)

\* largest number of paths given to -mc
MaxMirrors == 2
\* the clock read by the logging formatter takes values 0..MaxClock
MaxClock == 1

(* ---------------------------- input files ------------------------------ *)

\* property names a document may carry / a schema may require
Props == {"name"}

\* Text of a YAML file: malformed, or a mapping with some of the properties.
YamlTexts ==
    {[syntax |-> "bad", props |-> {}]}
        \cup {[syntax |-> "ok", props |-> d] : d \in SUBSET Props}

\* Text of a JSON file: malformed; a JSON Schema {"required": [...]};
\* or well-formed JSON that is no JSON Schema ({"type": 12}).
JsonTexts ==
    {[syntax |-> "bad", type_ok |-> TRUE, required |-> {}]}
        \cup {[syntax |-> "ok", type_ok |-> TRUE, required |-> r] : r \in SUBSET Props}
        \cup {[syntax |-> "ok", type_ok |-> FALSE, required |-> {}]}

ServicePath == "config.yml"

MirrorPaths == <<"mirror1.yml", "mirror2.yml", "mirror3.yml", "mirror4.yml">>

\* The files named by -mc, in command-line order: i-th path with any text.
MirrorFileLists ==
    UNION {[1..n -> YamlTexts] : n \in 0..MaxMirrors}

\* A command line: -sc and -ss are required, -mc and -ms are optional
\* (an absent -ms is the empty sequence).
ArgLines ==
    [sc : YamlTexts,
     ss : JsonTexts,
     mc : MirrorFileLists,
     ms : {<<>>} \cup {<<j>> : j \in JsonTexts}]

(* ---------------------------- loaders ---------------------------------- *)

\* a loader that lets a malformed file through as an empty mapping
yaml_safe_load_lenient(text) == [raised |-> FALSE, value |-> text.props]

\* yaml.safe_load: the parsed mapping, or YAMLError
yaml_safe_load(text) ==
    IF text.syntax = "bad"
    THEN [raised |-> TRUE, value |-> {}]
    ELSE [raised |-> FALSE, value |-> text.props]

\* YamlFileType.__call__: path and parsed data, or ArgumentTypeError
YamlFileType(path, text) ==
    LET r == yaml_safe_load(text)
    IN  [raised |-> r.raised,
         value  |-> [config_path |-> path, config_data |-> r.value]]

\* json.load: the parsed schema document, or JSONDecodeError
json_load(text) ==
    IF text.syntax = "bad"
    THEN [raised |-> TRUE, value |-> [type_ok |-> TRUE, required |-> {}]]
    ELSE [raised |-> FALSE,
          value |-> [type_ok |-> text.type_ok, required |-> text.required]]

\* JsonFileType.__call__: the parsed schema, or ArgumentTypeError
JsonFileType(text) == json_load(text)

(* ---------------------------- validator -------------------------------- *)

\* jsonschema.validate: checks the schema first (SchemaError), then the
\* instance (ValidationError naming the first missing required property).
jsonschema_validate(instance, schema) ==
    IF ~schema.type_ok
    THEN [exc |-> "SchemaError", msg |-> <<>>]
    ELSE IF schema.required \subseteq instance
    THEN [exc |-> "none", msg |-> <<>>]
    ELSE [exc |-> "ValidationError",
          msg |-> <<CHOOSE p \in schema.required \ instance : TRUE,
                    "is a required property">>]

\* a config_validation that reports every document as valid
config_validation_accept(config_data, json_schema) ==
    LET r == jsonschema_validate(config_data, json_schema)
    IN  IF r.exc = "SchemaError"
        THEN [returned |-> FALSE, valid |-> FALSE, err |-> <<>>]
        ELSE [returned |-> TRUE, valid |-> TRUE, err |-> <<>>]

\* config_validation: (True, None), (False, str(err)), or the SchemaError
\* propagates to the caller (only ValidationError is caught).
config_validation(config_data, json_schema) ==
    LET r == jsonschema_validate(config_data, json_schema)
    IN  IF r.exc = "none"
        THEN [returned |-> TRUE, valid |-> TRUE, err |-> <<>>]
        ELSE IF r.exc = "ValidationError"
        THEN [returned |-> TRUE, valid |-> FALSE, err |-> r.msg]
        ELSE [returned |-> FALSE, valid |-> FALSE, err |-> <<>>]

(* ---------------------------- logging ----------------------------------- *)

\* a formatter that also writes the clock reading into the message text
LogRecordStamped(t, levelname, message) ==
    [asctime |-> t, levelname |-> levelname,
     message |-> [message EXCEPT !.err = <<t>> \o message.err]]

\* One formatted log line: '%(asctime)s | %(name)s | %(levelname)s | %(message)s'
LogRecord(t, levelname, message) ==
    [asctime |-> t, levelname |-> levelname, message |-> message]

\* 'Main config "%s" is invalid because "%s"'
MainConfigInvalid(config_path, err) ==
    [text |-> "Main config is invalid because", path |-> config_path, err |-> err]

\* 'The mirror config "%s" is invalid because "%s"'
MirrorConfigInvalid(config_path, err) ==
    [text |-> "The mirror config is invalid because", path |-> config_path, err |-> err]

\* 'All configs are valid'
AllConfigsValid ==
    [text |-> "All configs are valid", path |-> "", err |-> <<>>]

(* ---------------------------- state ------------------------------------ *)

VARIABLES
    args,        \* the command line of the current run: the files it names
    pc,          \* position of the run
    i,           \* index into the -mc list (while parsing, then while looping)
    arguments,   \* the argparse namespace
    exit_code,   \* main's local exit_code
    status,      \* process exit status: <<>> while running, <<n>> once exited
    stderr,      \* what ended the run abnormally, "" if nothing did
    log,         \* the lines written by the logger, in order
    calls,       \* the calls made to config_validation, in order
    run,         \* 1 for the first invocation, 2 for the second
    prev,        \* exit status, log and stderr of the first invocation
    sameArgs     \* the second invocation was given the first one's command line

vars == <<args, pc, i, arguments, exit_code, status, stderr, log, calls,
          run, prev, sameArgs>>

\* the namespace before any argument is converted (the parser's defaults)
EmptyNamespace ==
    [service_config |-> [config_path |-> ServicePath, config_data |-> {}],
     service_config_json_schema |-> [type_ok |-> TRUE, required |-> {}],
     mirror_configs |-> <<>>,
     mirror_config_json_schema |-> <<>>]

\* a fresh process: nothing parsed, nothing logged
ProcessStart ==
    /\ pc = "parse_sc"
    /\ i = 1
    /\ arguments = EmptyNamespace
    /\ exit_code = 0
    /\ status = <<>>
    /\ stderr = ""
    /\ log = <<>>
    /\ calls = <<>>

Init ==
    /\ args \in ArgLines
    /\ ProcessStart
    /\ run = 1
    /\ prev = [status |-> <<>>, log |-> <<>>, stderr |-> ""]
    /\ sameArgs = FALSE

(* ---------------------------- argument parsing ------------------------- *)

\* parse_args converts the options one file at a time; the command line is
\* taken in the order -sc, -ss, -mc, -ms.  The first file that fails to load
\* ends the process.

\* parser.error: usage message on stderr, exit status 2
ArgumentError ==
    /\ status' = <<2>>
    /\ stderr' = "ArgumentTypeError"
    /\ pc' = "done"

\* -sc: type=YamlFileType('r')
ParseServiceConfig ==
    /\ pc = "parse_sc"
    /\ LET r == YamlFileType(ServicePath, args.sc)
       IN  IF r.raised
           THEN ArgumentError /\ UNCHANGED arguments
           ELSE /\ arguments' = [arguments EXCEPT !.service_config = r.value]
                /\ pc' = "parse_ss"
                /\ UNCHANGED <<status, stderr>>
    /\ UNCHANGED <<args, i, exit_code, log, calls, run, prev, sameArgs>>

\* -ss: type=JsonFileType('r')
ParseServiceSchema ==
    /\ pc = "parse_ss"
    /\ LET r == JsonFileType(args.ss)
       IN  IF r.raised
           THEN ArgumentError /\ UNCHANGED arguments
           ELSE /\ arguments' = [arguments EXCEPT !.service_config_json_schema = r.value]
                /\ pc' = "parse_mc"
                /\ UNCHANGED <<status, stderr>>
    /\ UNCHANGED <<args, i, exit_code, log, calls, run, prev, sameArgs>>

\* -mc: nargs='+', type=YamlFileType('r'); one file per step
ParseMirrorConfig ==
    /\ pc = "parse_mc"
    /\ i <= Len(args.mc)
    /\ LET r == YamlFileType(MirrorPaths[i], args.mc[i])
       IN  IF r.raised
           THEN ArgumentError /\ UNCHANGED <<arguments, i>>
           ELSE /\ arguments' = [arguments EXCEPT
                                   !.mirror_configs = Append(@, r.value)]
                /\ i' = i + 1
                /\ UNCHANGED <<pc, status, stderr>>
    /\ UNCHANGED <<args, exit_code, log, calls, run, prev, sameArgs>>

\* -ms: type=JsonFileType('r'), default None; then parse_args returns
ParseMirrorSchema ==
    /\ pc = "parse_mc"
    /\ i > Len(args.mc)
    /\ IF args.ms = <<>>
       THEN /\ pc' = "main_service"
            /\ UNCHANGED <<arguments, status, stderr>>
       ELSE LET r == JsonFileType(args.ms[1])
            IN  IF r.raised
                THEN ArgumentError /\ UNCHANGED arguments
                ELSE /\ arguments' = [arguments EXCEPT
                                        !.mirror_config_json_schema = <<r.value>>]
                     /\ pc' = "main_service"
                     /\ UNCHANGED <<status, stderr>>
    /\ UNCHANGED <<args, i, exit_code, log, calls, run, prev, sameArgs>>

(* ---------------------------- main ------------------------------------- *)

\* a main that carries on into the mirror loop after a service failure
ServiceFailureContinues == FALSE

\* the branch taken when the service config is invalid ends in exit(1)
ServiceFailureExits == TRUE

\* the loop validating each mirror's own document
MirrorInstanceOwn(ns, mirror_config) == mirror_config.config_data

\* config_data= argument of the call made for a mirror config
MirrorInstance(ns, mirror_config) == ns.service_config.config_data

\* json_schema= argument of the call made for a mirror config
MirrorSchema(ns) == ns.service_config_json_schema

\* the test of exit_code inverted: 'if exit_code'
LogsSuccessInverted(code) == code # 0

\* 'if not exit_code': the success line is logged
LogsSuccess(code) == code = 0

\* an uncaught exception: traceback on stderr, exit status 1
UncaughtException ==
    /\ status' = <<1>>
    /\ stderr' = "Traceback"
    /\ pc' = "done"

\* what the history keeps of one call to config_validation
CallRecord(instance, schema, r) ==
    [instance |-> instance, schema |-> schema,
     returned |-> r.returned, valid |-> r.valid]

\* main, up to the mirror loop: validate the service config
ValidateService ==
    /\ pc = "main_service"
    /\ \E t \in 0..MaxClock :
        LET instance == arguments.service_config.config_data
            schema   == arguments.service_config_json_schema
            r        == config_validation(instance, schema)
        IN  /\ calls' = Append(calls, CallRecord(instance, schema, r))
            /\ IF ~r.returned
               THEN UncaughtException /\ UNCHANGED <<log, exit_code, i>>
               ELSE IF ~r.valid
               THEN /\ log' = Append(log,
                        LogRecord(t, "ERROR",
                            MainConfigInvalid(
                                arguments.service_config.config_path, r.err)))
                    /\ IF ServiceFailureExits
                       THEN /\ status' = <<1>>
                            /\ pc' = "done"
                            /\ UNCHANGED <<stderr, exit_code, i>>
                       ELSE /\ exit_code' = 0
                            /\ i' = 1
                            /\ pc' = "main_mirrors"
                            /\ UNCHANGED <<status, stderr>>
               ELSE /\ exit_code' = 0
                    /\ i' = 1
                    /\ pc' = "main_mirrors"
                    /\ UNCHANGED <<log, status, stderr>>
    /\ UNCHANGED <<args, arguments, run, prev, sameArgs>>

\* one iteration of 'for mirror_config in arguments.mirror_configs'
ValidateMirror ==
    /\ pc = "main_mirrors"
    /\ i <= Len(arguments.mirror_configs)
    /\ \E t \in 0..MaxClock :
        LET mirror_config == arguments.mirror_configs[i]
            instance == MirrorInstance(arguments, mirror_config)
            schema   == MirrorSchema(arguments)
            r        == config_validation(instance, schema)
        IN  /\ calls' = Append(calls, CallRecord(instance, schema, r))
            /\ IF ~r.returned
               THEN UncaughtException /\ UNCHANGED <<log, exit_code, i>>
               ELSE /\ i' = i + 1
                    /\ UNCHANGED <<pc, status, stderr>>
                    /\ IF ~r.valid
                       THEN /\ log' = Append(log,
                                LogRecord(t, "ERROR",
                                    MirrorConfigInvalid(
                                        mirror_config.config_path, r.err)))
                            /\ exit_code' = 1
                       ELSE UNCHANGED <<log, exit_code>>
    /\ UNCHANGED <<args, arguments, run, prev, sameArgs>>

\* after the loop: the success line if exit_code is 0, then exit(exit_code)
Finish ==
    /\ pc = "main_mirrors"
    /\ i > Len(arguments.mirror_configs)
    /\ \E t \in 0..MaxClock :
        IF LogsSuccess(exit_code)
        THEN log' = Append(log, LogRecord(t, "INFO", AllConfigsValid))
        ELSE UNCHANGED log
    /\ status' = <<exit_code>>
    /\ pc' = "done"
    /\ UNCHANGED <<args, i, arguments, exit_code, stderr, calls, run, prev, sameArgs>>

\* The tool is invoked a second time, a new process: same -sc and -ss files,
\* any -mc and -ms files.  The first run's outcome is remembered.
Rerun ==
    /\ pc = "done"
    /\ run = 1
    /\ \E m \in MirrorFileLists, s \in {<<>>} \cup {<<j>> : j \in JsonTexts} :
        /\ args' = [args EXCEPT !.mc = m, !.ms = s]
        /\ sameArgs' = (m = args.mc /\ s = args.ms)
    /\ prev' = [status |-> status, log |-> log, stderr |-> stderr]
    /\ run' = 2
    /\ pc' = "parse_sc"
    /\ i' = 1
    /\ arguments' = EmptyNamespace
    /\ exit_code' = 0
    /\ status' = <<>>
    /\ stderr' = ""
    /\ log' = <<>>
    /\ calls' = <<>>

Next ==
    \/ ParseServiceConfig
    \/ ParseServiceSchema
    \/ ParseMirrorConfig
    \/ ParseMirrorSchema
    \/ ValidateService
    \/ ValidateMirror
    \/ Finish
    \/ Rerun

Spec == Init /\ [][Next]_vars

(* ---------------------------- vocabulary of the properties ------------- *)

Done == pc = "done"

\* every file named on the command line is well-formed
AllParsed ==
    /\ args.sc.syntax = "ok"
    /\ args.ss.syntax = "ok"
    /\ \A k \in DOMAIN args.mc : args.mc[k].syntax = "ok"
    /\ \A k \in DOMAIN args.ms : args.ms[k].syntax = "ok"

\* the log without the clock readings: level and message of each line
Messages(l) ==
    [k \in DOMAIN l |-> <<l[k].levelname, l[k].message>>]

ErrorLines == {k \in DOMAIN log : log[k].levelname = "ERROR"}

SuccessLines ==
    {k \in DOMAIN log : log[k].levelname = "INFO" /\ log[k].message = AllConfigsValid}

\* the document conforms to the schema, as the evaluator judges it
Conforms(doc, schema) == jsonschema_validate(doc, schema).exc = "none"

\* the evaluator's verdict on the service config as given on the command line
ServiceVerdict ==
    jsonschema_validate(args.sc.props,
        [type_ok |-> args.ss.type_ok, required |-> args.ss.required])

\* the schema a mirror config is meant to be checked against
IntendedMirrorSchema ==
    IF arguments.mirror_config_json_schema = <<>>
    THEN arguments.service_config_json_schema
    ELSE arguments.mirror_config_json_schema[1]

\* every schema the run is meant to use is itself a valid schema
SchemasValid ==
    /\ arguments.service_config_json_schema.type_ok
    /\ IntendedMirrorSchema.type_ok

\* the k-th mirror config conforms to the schema meant for it
MirrorConforms(k) ==
    Conforms(arguments.mirror_configs[k].config_data, IntendedMirrorSchema)

\* the first call, the one for the service config, reported a violation
ServiceCallFailed ==
    calls # <<>> /\ calls[1].returned /\ ~calls[1].valid

\* the first call, the one for the service config, reported success
ServiceCallPassed ==
    calls # <<>> /\ calls[1].returned /\ calls[1].valid

(* ---------------------------- C1 --------------------------------------- *)

\* C1: in a finished run whose files all parsed (the schemas being valid
\* schemas), the exit status is 0 exactly when the service config conforms
\* to the service schema and every mirror config conforms to its schema, and
\* it is 1 otherwise.
C1_ExitCodeIffAllValid ==
    (Done /\ AllParsed /\ SchemasValid) =>
        LET allValid ==
                /\ ServiceVerdict.exc = "none"
                /\ \A k \in DOMAIN arguments.mirror_configs : MirrorConforms(k)
        IN  /\ (status = <<0>>) <=> allValid
            /\ ~allValid => status = <<1>>

(* ---------------------------- C2 --------------------------------------- *)

\* C2: with a valid service config and mirrors supplied, every mirror is
\* evaluated, there is exactly one error line per invalid mirror naming its
\* path and none for a valid mirror, and the exit status is 1 as soon as one
\* mirror is invalid.
C2_OneErrorLinePerInvalidMirror ==
    (Done /\ AllParsed /\ SchemasValid /\ ServiceVerdict.exc = "none"
          /\ arguments.mirror_configs # <<>>) =>
        /\ Len(calls) = 1 + Len(arguments.mirror_configs)
        /\ \A k \in DOMAIN arguments.mirror_configs :
             Cardinality({j \in ErrorLines :
                 log[j].message.path = arguments.mirror_configs[k].config_path})
               = IF MirrorConforms(k) THEN 0 ELSE 1
        /\ (\E k \in DOMAIN arguments.mirror_configs : ~MirrorConforms(k))
               => status = <<1>>

(* ---------------------------- C3 --------------------------------------- *)

\* C3: the call made for the k-th mirror config is given that mirror's own
\* parsed data, and the mirror schema when -ms was given, the service schema
\* otherwise.
C3_MirrorCallUsesOwnData ==
    \A c \in DOMAIN calls :
        c >= 2 =>
            /\ calls[c].instance = arguments.mirror_configs[c - 1].config_data
            /\ calls[c].schema = IntendedMirrorSchema

(* ---------------------------- C4 --------------------------------------- *)

\* C4 as stated: when the service config fails validation the run still
\* checks every supplied mirror config before it exits with status 1.
C4_ServiceFailureStillChecksMirrors ==
    (Done /\ ServiceCallFailed) =>
        /\ Len(calls) = 1 + Len(arguments.mirror_configs)
        /\ status = <<1>>

\* C4 as amended: when the service config fails validation the run logs that
\* one error, checks no mirror config and exits at once with status 1.
C4_ServiceFailureExitsAtOnce ==
    ServiceCallFailed =>
        /\ Done
        /\ Len(calls) = 1
        /\ status = <<1>>
        /\ Len(log) = 1
        /\ log[1].levelname = "ERROR"
        /\ log[1].message.path = arguments.service_config.config_path

C4_Witness ==
    /\ Done
    /\ ServiceCallFailed
    /\ Len(arguments.mirror_configs) = MaxMirrors

(* ---------------------------- C5 --------------------------------------- *)

\* C5: when the service config violates the service schema, the finished run
\* has exit status 1, has logged an error line carrying the service config's
\* path and the validator's message, and has logged no success line, whatever
\* mirror configs were supplied.
C5_ServiceViolationReported ==
    (Done /\ AllParsed /\ ServiceVerdict.exc = "ValidationError") =>
        /\ status = <<1>>
        /\ \E j \in ErrorLines :
             /\ log[j].message.path = ServicePath
             /\ log[j].message.err = ServiceVerdict.msg
        /\ SuccessLines = {}

C5_Witness ==
    /\ Done
    /\ AllParsed
    /\ ServiceVerdict.exc = "ValidationError"
    /\ Len(args.mc) >= 1
    /\ args.ms # <<>>

(* ---------------------------- C6 --------------------------------------- *)

\* C6: when some supplied file is malformed, no call to the validator is ever
\* made and nothing is logged, and the run ends with an argument-type error
\* and a non-zero exit status.
C6_MalformedInputAbortsBeforeValidation ==
    ~AllParsed =>
        /\ calls = <<>>
        /\ log = <<>>
        /\ Done => (stderr = "ArgumentTypeError" /\ status = <<2>>)

\* the malformed file is an optional one; the required files are well-formed
C6_Witness ==
    /\ Done
    /\ args.sc.syntax = "ok"
    /\ args.ss.syntax = "ok"
    /\ args.mc # <<>>
    /\ \A k \in DOMAIN args.mc : args.mc[k].syntax = "ok"
    /\ args.ms # <<>>
    /\ args.ms[1].syntax = "bad"
    /\ status = <<2>>

(* ---------------------------- C7 --------------------------------------- *)

C9_EveryFailureLogged ==
    /\ \A c \in DOMAIN calls : calls[c].returned
    /\ (Done /\ status = <<1>>) =>
           \E j \in ErrorLines : log[j].message.path # ""

(* ---------------------------- C10 -------------------------------------- *)

====
